---------------------------- MODULE Spec2Model ----------------------------
(***************************************************************************)
(* SnapshotManager of jungle-db (src/main/generic/SnapshotManager.js): the *)
(* registry of live snapshots of one backend, its fan-out of a committed   *)
(* transaction to the snapshots (applyTx) and the adoption of the          *)
(* snapshots that were created against the transaction.                    *)
(*                                                                         *)
(* Snapshot, Transaction and the caller that applies a transaction's       *)
(* write-set are not part of SnapshotManager.js; they are modelled from    *)
(* the specification (read, _apply, originalValue, the store mutation      *)
(* after applyTx has resolved).                                            *)
(***************************************************************************)
EXTENDS Naturals, FiniteSets, TLC

\* ---------------------------------------------------------------- bounds
NumSnapshots == 2
\* The number of _apply calls that may fail in one run.
MaxFailures == 1

\* -------------------------------------------------------------- universe
Snaps    == 1..NumSnapshots
Txs      == {"t1", "t2"}
Store    == "store"
Backends == {Store} \cup Txs
Keys     == {"A", "B"}

\* A value that is not a Transaction (the argument of an invalid applyTx).
NotATx == "notATx"
Args   == Txs \cup {NotATx}

\* Values: the initial value, the value a transaction writes, the tombstone.
InitVal   == "v0"
Absent    == "absent"
NoWrite   == "nowrite"
NoEntry   == "noentry"
ReadError == "TypeError"
ValOf(t)  == t

InitStore == [k \in Keys |-> IF k = "A" THEN InitVal ELSE Absent]

\* The write-sets a transaction may carry: a put of its own value to A, or a
\* remove of A. B is the key no transaction touches.
WriteSets(t) ==
    { [k \in Keys |-> IF k = "A" THEN ValOf(t) ELSE NoWrite],
      [k \in Keys |-> IF k = "A" THEN Absent ELSE NoWrite] }

\* Object references held in Snapshot._backend.
BackendRef(b) == [kind |-> "backend", of |-> b]
ManagerRef(b) == [kind |-> "manager", of |-> b]
NullRef       == [kind |-> "null", of |-> "null"]

VARIABLES
    store,       \* the root store's visible state: key -> value or Absent
    txState,     \* per transaction: none, open, applying, resolved, rejected, committed
    txParent,    \* per transaction: the backend it commits to
    txWrites,    \* per transaction: its write-set (key -> value, Absent, NoWrite)
    txOrig,      \* per transaction: the parent's values when applyTx was called
    snapshots,   \* per backend: SnapshotManager._snapshots of its registry
    created,     \* per snapshot: constructed
    backend,     \* per snapshot: Snapshot._backend
    diff,        \* per snapshot: key -> pre-image or NoEntry
    applications,\* per applyTx argument, per snapshot: none, pending, done, failed
    nApply,      \* per applyTx argument, per snapshot: number of _apply invocations
    atCall,      \* per transaction: the registry's members when applyTx was called
    txSnapsAtCall,\* per transaction: the members of tx's own registry at that call
    origin,      \* per snapshot: the backend it was created against
    atCreate,    \* per snapshot: what it read, per key, when it was created
    inflightAtCreate, \* per snapshot: the applyTx calls in flight on its backend then
    laterWrites, \* per transaction: another write-set reached its parent's state after its applyTx call
    ret,         \* the last operation of the registry's interface and its result
    itState,     \* the iterator of the model: none, open, done
    itOf,        \* the backend whose registry it iterates
    itStart,     \* the registry's members when the iterator was obtained
    itPending,   \* the entries the iterator has still to visit
    itYielded    \* the snapshots it has yielded

vars == <<store, txState, txParent, txWrites, txOrig, snapshots, created, backend,
          diff, applications, nApply, atCall, txSnapsAtCall, origin, atCreate,
          inflightAtCreate, laterWrites, ret,
          itState, itOf, itStart, itPending, itYielded>>

\* ------------------------------------------------------------ collaborators

\* backend.read(key): the store's value, or a transaction's tentative state
\* (its own write over its parent's state).
RECURSIVE BackendRead(_, _)
BackendRead(b, k) ==
    IF b = Store THEN store[k]
    ELSE IF txWrites[b][k] # NoWrite THEN txWrites[b][k]
    ELSE BackendRead(txParent[b], k)

\* Snapshot.read(key): the diff's pre-image, else the backend's read. A backend
\* reference that holds a SnapshotManager has no read: the call throws.
SnapshotRead(s, k) ==
    IF diff[s][k] # NoEntry THEN diff[s][k]
    ELSE IF backend[s].kind = "backend" THEN BackendRead(backend[s].of, k)
    ELSE ReadError

\* Snapshot._apply(tx) once it has run: first capture wins.
Capture(d, t) ==
    [k \in Keys |-> IF txWrites[t][k] # NoWrite /\ d[k] = NoEntry
                    THEN txOrig[t][k] ELSE d[k]]

\* b's visible state is read through backend p (p is b or an ancestor of b).
RECURSIVE ReadsThrough(_, _)
ReadsThrough(b, p) ==
    IF b = p THEN TRUE
    ELSE IF b = Store THEN FALSE
    ELSE ReadsThrough(txParent[b], p)

\* An applyTx call on b's registry is in flight: called, its write-set not yet
\* applied and not yet failed.
InFlight(b) == {t \in Txs : txParent[t] = b /\ txState[t] \in {"applying", "resolved"}}

\* ------------------------------------------------------------------- Init

Init ==
    /\ store = InitStore
    /\ txState = [t \in Txs |-> "none"]
    /\ txParent = [t \in Txs |-> "null"]
    /\ txWrites = [t \in Txs |-> [k \in Keys |-> NoWrite]]
    /\ txOrig = [t \in Txs |-> [k \in Keys |-> NoEntry]]
    /\ snapshots = [b \in Backends |-> {}]
    /\ created = [s \in Snaps |-> FALSE]
    /\ backend = [s \in Snaps |-> NullRef]
    /\ diff = [s \in Snaps |-> [k \in Keys |-> NoEntry]]
    /\ applications = [x \in Args |-> [s \in Snaps |-> "none"]]
    /\ nApply = [x \in Args |-> [s \in Snaps |-> 0]]
    /\ atCall = [t \in Txs |-> {}]
    /\ txSnapsAtCall = [t \in Txs |-> {}]
    /\ origin = [s \in Snaps |-> "null"]
    /\ atCreate = [s \in Snaps |-> [k \in Keys |-> NoEntry]]
    /\ inflightAtCreate = [s \in Snaps |-> {}]
    /\ laterWrites = [t \in Txs |-> FALSE]
    /\ ret = [op |-> "none", snap |-> 0, val |-> "none"]
    /\ itState = "none"
    /\ itOf = "null"
    /\ itStart = {}
    /\ itPending = {}
    /\ itYielded = {}

\* ---------------------------------------------------------------- actions

\* Mutant: the iterator walks a copy of the set taken when it was obtained.
CopiedEntries(pending, before, after) == pending

\* The entries a Set iterator has still to visit after the set changed from
\* before to after: the iterator is live, a deleted entry is not visited, an
\* added entry is appended behind the iterator's position.
LiveEntries(pending, before, after) == (pending \cap after) \cup (after \ before)

\* The effect on the open iterator of a step that changes its registry.
IteratorTracks ==
    /\ itPending' = IF itState = "open"
                    THEN LiveEntries(itPending, snapshots[itOf], snapshots'[itOf])
                    ELSE itPending
    /\ UNCHANGED <<itState, itOf, itStart, itYielded>>

\* A caller opens transaction t against backend p with write-set w.
OpenTx(t, p, w) ==
    /\ txState[t] = "none"
    /\ p # t
    /\ IF p = Store THEN TRUE ELSE txState[p] = "open"
    /\ txState' = [txState EXCEPT ![t] = "open"]
    /\ txParent' = [txParent EXCEPT ![t] = p]
    /\ txWrites' = [txWrites EXCEPT ![t] = w]
    /\ UNCHANGED <<store, txOrig, snapshots, created, backend, diff, applications,
                   nApply, atCall, txSnapsAtCall, origin, atCreate,
                   inflightAtCreate, laterWrites, ret>>
    /\ IteratorTracks

\* The registry of backend b exists and its owner is live.
Live(b) == IF b = Store THEN TRUE ELSE txState[b] = "open"

\* What the last call of the registry's interface returned: the operation,
\* the snapshot createSnapshot returned (0 otherwise), the value.
Ret(op, s, v) == [op |-> op, snap |-> s, val |-> v]

\* new Snapshot(objectStore, backend): a fresh object, the next unused identity.
NewSnapshot == CHOOSE s \in Snaps : ~created[s] /\ \A r \in Snaps : ~created[r] => s <= r

\* Mutant: the new snapshot is returned without being registered.
AddSnapshotForgotten(b, s) == snapshots

\* this._snapshots.add(snapshot) in createSnapshot.
AddSnapshot(b, s) == [snapshots EXCEPT ![b] = @ \cup {s}]

\* Mutant: the fan-out of a running applyTx walks the live set lazily, so a
\* snapshot registered meanwhile is applied by it as well.
createSnapshotJoinsFanOut(b) ==
    /\ Live(b)
    /\ \E s \in Snaps : ~created[s]
    /\ LET s == NewSnapshot IN
        /\ created' = [created EXCEPT ![s] = TRUE]
        /\ backend' = [backend EXCEPT ![s] = BackendRef(b)]
        /\ diff' = [diff EXCEPT ![s] = [k \in Keys |-> NoEntry]]
        /\ snapshots' = AddSnapshot(b, s)
        /\ origin' = [origin EXCEPT ![s] = b]
        /\ atCreate' = [atCreate EXCEPT ![s] = [k \in Keys |-> BackendRead(b, k)]]
        /\ inflightAtCreate' = [inflightAtCreate EXCEPT ![s] = InFlight(b)]
        /\ applications' = [x \in Args |->
               IF x \in InFlight(b) /\ txState[x] = "applying"
               THEN [applications[x] EXCEPT ![s] = "pending"]
               ELSE applications[x]]
        /\ nApply' = [x \in Args |->
               IF x \in InFlight(b) /\ txState[x] = "applying"
               THEN [nApply[x] EXCEPT ![s] = 1]
               ELSE nApply[x]]
        /\ ret' = Ret("createSnapshot", s, "snapshot")
    /\ UNCHANGED <<store, txState, txParent, txWrites, txOrig, atCall,
                   txSnapsAtCall, laterWrites>>
    /\ IteratorTracks

\* SnapshotManager.createSnapshot(objectStore, backend) on b's registry, with
\* b itself as the backend the snapshot reads through.
createSnapshot(b) ==
    /\ Live(b)
    /\ \E s \in Snaps : ~created[s]
    /\ LET s == NewSnapshot IN
        /\ created' = [created EXCEPT ![s] = TRUE]
        /\ backend' = [backend EXCEPT ![s] = BackendRef(b)]
        /\ diff' = [diff EXCEPT ![s] = [k \in Keys |-> NoEntry]]
        /\ snapshots' = AddSnapshot(b, s)
        /\ origin' = [origin EXCEPT ![s] = b]
        /\ atCreate' = [atCreate EXCEPT ![s] = [k \in Keys |-> BackendRead(b, k)]]
        /\ inflightAtCreate' = [inflightAtCreate EXCEPT ![s] = InFlight(b)]
        /\ ret' = Ret("createSnapshot", s, "snapshot")
    /\ UNCHANGED <<store, txState, txParent, txWrites, txOrig, applications, nApply,
                   atCall, txSnapsAtCall, laterWrites>>
    /\ IteratorTracks

\* Mutant: delete reports success whether or not the element was present.
SetDeleteTrue(set, s) == TRUE

\* Set.prototype.delete: whether the element was present.
SetDelete(set, s) == s \in set

\* SnapshotManager.abortSnapshot(snapshot) on b's registry.
abortSnapshot(b, s) ==
    /\ IF b = Store THEN TRUE ELSE txState[b] # "none"
    /\ created[s]
    /\ ret' = Ret("abortSnapshot", 0, IF SetDelete(snapshots[b], s) THEN "true" ELSE "false")
    /\ snapshots' = [snapshots EXCEPT ![b] = @ \ {s}]
    /\ UNCHANGED <<store, txState, txParent, txWrites, txOrig, created, backend, diff,
                   applications, nApply, atCall, txSnapsAtCall, origin, atCreate,
                   inflightAtCreate, laterWrites>>
    /\ IteratorTracks

\* Mutant: the instanceof check lets every value through.
IsTransactionAny(x) == TRUE

\* tx instanceof Transaction.
IsTransaction(x) == x \in Txs

\* Mutant: the first loop is skipped, no snapshot is applied.
FanOutNone(b, x) == {}

\* Mutant: the take-over runs before the fan-out, which then also reaches the
\* snapshots of tx's own registry.
FanOutAfterTakeOver(b, x) == snapshots[b] \cup (IF x \in Txs THEN snapshots[x] ELSE {})

\* Mutant: the first loop stops after its first snapshot, as it would if a
\* failing _apply interrupted it.
FanOutFirstOnly(b, x) == {s \in snapshots[b] : \A r \in snapshots[b] : s <= r}

\* Mutant: _apply is invoked on every snapshot ever created, registered or not.
FanOutEveryone(b, x) == {s \in Snaps : created[s]}

\* The snapshots the first loop of applyTx invokes _apply(tx) on.
FanOut(b, x) == snapshots[b]

\* Mutant: the second loop also walks the registry's own snapshots, so these
\* are re-pointed as well.
TakenOverWithOwn(b, x) == snapshots[x] \cup snapshots[b]

\* Mutant: the snapshots to take over are found by their backend, not in the
\* transaction's registry.
TakenOverByBackend(b, x) == {s \in Snaps : created[s] /\ backend[s] = BackendRef(x)}

\* The snapshots the second loop of applyTx takes over: tx._snapshotManager.
TakenOver(b, x) == snapshots[x]

\* snapshot._backend = this: `this` is the SnapshotManager.
TakeOverBackend(b) == ManagerRef(b)

\* Mutant: the registry is replaced by the transaction's snapshots instead of
\* being extended by them.
TakeOverSetsReplace(b, x) == [snapshots EXCEPT ![b] = TakenOver(b, x)]

\* Mutant: the taken-over snapshots are re-pointed but not added to the registry.
TakeOverSetsNoAdd(b, x) == snapshots

\* this._snapshots.add(snapshot) for each snapshot taken over; tx's own set is
\* left as it is.
TakeOverSets(b, x) == [snapshots EXCEPT ![b] = @ \cup TakenOver(b, x)]

\* Mutant: Promise.allSettled, a failed application does not fail the result.
PromiseAllSettled(results) ==
    IF \E s \in Snaps : results[s] = "pending" THEN "pending" ELSE "resolved"

\* Mutant: the applications are not awaited.
PromiseAllNoJoin(results) ==
    IF \E s \in Snaps : results[s] = "failed" THEN "rejected" ELSE "resolved"

\* Promise.all(applications): rejected as soon as one application has failed,
\* resolved once all have finished, pending otherwise.
PromiseAll(results) ==
    IF \E s \in Snaps : results[s] = "failed" THEN "rejected"
    ELSE IF \E s \in Snaps : results[s] = "pending" THEN "pending"
    ELSE "resolved"

\* SnapshotManager.applyTx(tx) on b's registry, up to the return of the promise:
\* the instanceof check, the fan-out of _apply and the take-over run without
\* suspension.
applyTx(b, x) ==
    /\ Live(b)
    /\ IF ~IsTransaction(x)
       THEN \* throw 'Can only apply transactions'
            /\ ret' = Ret("applyTx", 0, "InvalidArgument")
            /\ UNCHANGED <<store, txState, txParent, txWrites, txOrig, snapshots,
                           created, backend, diff, applications, nApply, atCall,
                           txSnapsAtCall, origin, atCreate, inflightAtCreate,
                           laterWrites>>
       ELSE IF x \notin Txs
       THEN \* a value without _snapshotManager: _apply is invoked on every
            \* snapshot, then the second loop throws a TypeError
            /\ nApply' = [nApply EXCEPT ![x] =
                   [s \in Snaps |-> IF s \in FanOut(b, x) /\ @[s] < 2 THEN @[s] + 1 ELSE @[s]]]
            /\ ret' = Ret("applyTx", 0, "TypeError")
            /\ UNCHANGED <<store, txState, txParent, txWrites, txOrig, snapshots,
                           created, backend, diff, applications, atCall,
                           txSnapsAtCall, origin, atCreate, inflightAtCreate,
                           laterWrites>>
       ELSE \* the caller commits an open transaction to its parent, once, and
            \* not while a child's commit into it is in flight
            /\ txState[x] = "open"
            /\ txParent[x] = b
            /\ InFlight(x) = {}
            /\ applications' = [applications EXCEPT ![x] =
                   [s \in Snaps |-> IF s \in FanOut(b, x) THEN "pending" ELSE @[s]]]
            /\ nApply' = [nApply EXCEPT ![x] =
                   [s \in Snaps |-> IF s \in FanOut(b, x) THEN @[s] + 1 ELSE @[s]]]
            /\ backend' = [s \in Snaps |->
                   IF s \in TakenOver(b, x) THEN TakeOverBackend(b) ELSE backend[s]]
            /\ snapshots' = TakeOverSets(b, x)
            /\ txState' = [txState EXCEPT ![x] = "applying"]
            /\ txOrig' = [txOrig EXCEPT ![x] = [k \in Keys |-> BackendRead(b, k)]]
            /\ atCall' = [atCall EXCEPT ![x] = snapshots[b]]
            /\ txSnapsAtCall' = [txSnapsAtCall EXCEPT ![x] = snapshots[x]]
            /\ ret' = Ret("applyTx", 0, "promise")
            /\ UNCHANGED <<store, txParent, txWrites, created, diff, origin, atCreate,
                           inflightAtCreate, laterWrites>>
    /\ IteratorTracks

\* One application, snapshot._apply(tx), finishes: the pre-images are captured.
ApplyDone(t, s) ==
    /\ applications[t][s] = "pending"
    /\ applications' = [applications EXCEPT ![t][s] = "done"]
    /\ diff' = [diff EXCEPT ![s] = Capture(@, t)]
    /\ UNCHANGED <<store, txState, txParent, txWrites, txOrig, snapshots, created,
                   backend, nApply, atCall, txSnapsAtCall, origin, atCreate,
                   inflightAtCreate, laterWrites, ret>>
    /\ IteratorTracks

\* One application fails (the read of an original value fails): nothing is captured.
ApplyFail(t, s) ==
    /\ applications[t][s] = "pending"
    /\ Cardinality({c \in Txs \X Snaps : applications[c[1]][c[2]] = "failed"}) < MaxFailures
    /\ applications' = [applications EXCEPT ![t][s] = "failed"]
    /\ UNCHANGED <<store, txState, txParent, txWrites, txOrig, snapshots, created,
                   backend, diff, nApply, atCall, txSnapsAtCall, origin, atCreate,
                   inflightAtCreate, laterWrites, ret>>
    /\ IteratorTracks

\* The promise applyTx returned settles.
Settle(t) ==
    /\ txState[t] = "applying"
    /\ PromiseAll(applications[t]) # "pending"
    /\ txState' = [txState EXCEPT ![t] = PromiseAll(applications[t])]
    /\ UNCHANGED <<store, txParent, txWrites, txOrig, snapshots, created, backend,
                   diff, applications, nApply, atCall, txSnapsAtCall, origin,
                   atCreate, inflightAtCreate, laterWrites, ret>>
    /\ IteratorTracks

\* The caller, once applyTx has resolved, applies tx's write-set to the parent:
\* to the store, or to the parent transaction's tentative state.
StoreWrite(t) ==
    /\ txState[t] = "resolved"
    /\ LET p == txParent[t]
           w == txWrites[t]
       IN /\ IF p = Store
             THEN /\ store' = [k \in Keys |-> IF w[k] # NoWrite THEN w[k] ELSE store[k]]
                  /\ UNCHANGED txWrites
             ELSE /\ txWrites' = [txWrites EXCEPT ![p] =
                         [k \in Keys |-> IF w[k] # NoWrite THEN w[k] ELSE @[k]]]
                  /\ UNCHANGED store
          /\ laterWrites' = [u \in Txs |->
                 IF u # t /\ txState[u] \in {"applying", "resolved", "rejected"}
                    THEN laterWrites[u] \/ ReadsThrough(txParent[u], p)
                    ELSE laterWrites[u]]
    /\ txState' = [txState EXCEPT ![t] = "committed"]
    /\ UNCHANGED <<txParent, txOrig, snapshots, created, backend, diff, applications,
                   nApply, atCall, txSnapsAtCall, origin, atCreate, inflightAtCreate,
                   ret>>
    /\ IteratorTracks

Next ==
    \/ \E t \in Txs, p \in Backends : \E w \in WriteSets(t) : OpenTx(t, p, w)
    \/ \E b \in Backends : createSnapshot(b)
    \/ \E b \in Backends, s \in Snaps : abortSnapshot(b, s)
    \/ \E b \in Backends, x \in Args : applyTx(b, x)
    \/ \E t \in Txs, s \in Snaps : ApplyDone(t, s)
    \/ \E t \in Txs, s \in Snaps : ApplyFail(t, s)
    \/ \E t \in Txs : Settle(t)
    \/ \E t \in Txs : StoreWrite(t)

Spec == Init /\ [][Next]_vars

\* SnapshotManager[Symbol.iterator]() on b's registry: this._snapshots.values().
Iterator(b) ==
    /\ itState = "none"
    /\ IF b = Store THEN TRUE ELSE txState[b] # "none"
    /\ itState' = "open"
    /\ itOf' = b
    /\ itStart' = snapshots[b]
    /\ itPending' = snapshots[b]
    /\ itYielded' = {}
    /\ UNCHANGED <<store, txState, txParent, txWrites, txOrig, snapshots, created,
                   backend, diff, applications, nApply, atCall, txSnapsAtCall,
                   origin, atCreate, inflightAtCreate, laterWrites, ret>>

\* next() on the iterator: it yields an entry it has still to visit, or
\* reports done, for good, when there is none.  The order of the entries
\* (insertion order) is not modelled.
IteratorNext ==
    /\ itState = "open"
    /\ IF itPending = {}
       THEN itState' = "done" /\ UNCHANGED <<itPending, itYielded>>
       ELSE \E s \in itPending :
               /\ itPending' = itPending \ {s}
               /\ itYielded' = itYielded \cup {s}
               /\ UNCHANGED itState
    /\ UNCHANGED <<store, txState, txParent, txWrites, txOrig, snapshots, created,
                   backend, diff, applications, nApply, atCall, txSnapsAtCall,
                   origin, atCreate, inflightAtCreate, laterWrites, ret, itOf, itStart>>

\* The registry's operations with an iteration under way.
IterNext ==
    \/ \E t \in Txs, p \in Backends : \E w \in WriteSets(t) : OpenTx(t, p, w)
    \/ \E b \in Backends : createSnapshot(b)
    \/ \E b \in Backends, s \in Snaps : abortSnapshot(b, s)
    \/ \E b \in Backends, t \in Txs : applyTx(b, t)
    \/ \E b \in Backends : Iterator(b)
    \/ IteratorNext

IterSpec == Init /\ [][IterNext]_vars

\* ------------------------------------------------------------- properties

Called(t) == txState[t] \in {"applying", "resolved", "rejected", "committed"}

\* s still reads through the backend it was created against and is still
\* registered there: it has neither been taken over nor aborted.
Attached(s) ==
    /\ created[s]
    /\ backend[s] = BackendRef(origin[s])
    /\ s \in snapshots[origin[s]]

C2_FanOutExactlyMembers ==
    \A t \in Txs, s \in Snaps :
        nApply[t][s] = (IF Called(t) /\ s \in atCall[t] THEN 1 ELSE 0)

\* An applyTx call that found a member to apply and a snapshot of tx's own
\* registry to take over.
C2_Witness ==
    \E t \in Txs : Called(t) /\ atCall[t] # {} /\ txSnapsAtCall[t] \ atCall[t] # {}

\* C3 (as claimed): applyTx(tx) on b's registry sets the backend of every
\* snapshot of tx's registry to b, the owner of the registry.
C3_BackendIsOwner ==
    [][\A b \in Backends, t \in Txs :
          applyTx(b, t) => \A s \in snapshots[t] : backend'[s] = BackendRef(b)]_vars

\* C4 (as claimed): applyTx(tx) on b's registry moves every snapshot of tx's
\* registry into b's registry, and a snapshot is a member of at most one
\* registry at any time.
C4_AdoptionMoves ==
    /\ [][\A b \in Backends, t \in Txs :
             applyTx(b, t) =>
                 \A s \in snapshots[t] : s \in snapshots'[b] /\ s \notin snapshots'[t]]_vars
    /\ [](\A s \in Snaps : Cardinality({b \in Backends : s \in snapshots[b]}) <= 1)

\* C5 (as claimed): a snapshot created against transaction t reads, once t has
\* been committed to its parent, for every key t changed the value the parent
\* had just before the commit.
C5_AdoptedReadsPreCommit ==
    \A t \in Txs, s \in Snaps :
        (txState[t] = "committed" /\ origin[s] = t /\ s \in txSnapsAtCall[t]) =>
            \A k \in Keys : txWrites[t][k] # NoWrite => SnapshotRead(s, k) = txOrig[t][k]

\* C6: when the capture of one snapshot fails during applyTx(tx), tx's
\* write-set is never applied, and the parent's visible state stays what it
\* was when applyTx was called (as long as no other commit changes it).
C6_FailedCaptureNoWrite ==
    \A t \in Txs :
        (\E s \in Snaps : applications[t][s] = "failed") =>
            /\ txState[t] \in {"applying", "rejected"}
            /\ ~laterWrites[t] => \A k \in Keys : BackendRead(txParent[t], k) = txOrig[t][k]

\* An applyTx failed after another snapshot had captured its pre-images.
C6_Witness ==
    \E t \in Txs :
        /\ txState[t] = "rejected"
        /\ ~laterWrites[t]
        /\ \E s \in Snaps : applications[t][s] = "failed"
        /\ \E s \in Snaps : applications[t][s] = "done" /\ diff[s]["A"] # NoEntry

\* C7 (as claimed): the captures of two applyTx calls on the same registry do
\* not overlap: no two transactions of one parent have _apply calls running
\* at the same time.
C7_CapturePhasesSerialized ==
    \A t \in Txs, u \in Txs :
        (t # u /\ Called(t) /\ Called(u) /\ txParent[t] = txParent[u]) =>
            ~(/\ \E s \in Snaps : applications[t][s] = "pending"
              /\ \E s \in Snaps : applications[u][s] = "pending")

C9_AbortSnapshot ==
    [][\A b \in Backends, s \in Snaps :
          abortSnapshot(b, s) =>
              /\ ret'.op = "abortSnapshot"
              /\ ret'.val = (IF s \in snapshots[b] THEN "true" ELSE "false")
              /\ s \notin snapshots'[b]
              /\ \A b2 \in Backends, s2 \in Snaps :
                     (b2 # b \/ s2 # s) => (s2 \in snapshots'[b2] <=> s2 \in snapshots[b2])
              /\ UNCHANGED <<created, backend, diff>>]_vars

\* The only snapshot there is was registered in the store's registry, the
\* only registry there is, and abortSnapshot has just returned false for it:
\* it was aborted before, and that abort returned true.
C9_Witness ==
    /\ ret.op = "abortSnapshot" /\ ret.val = "false"
    /\ \A t \in Txs : txState[t] = "none"
    /\ \A s \in Snaps : created[s] <=> s = 1
    /\ 1 \notin snapshots[Store]

\* C10: applyTx with a value that is not a transaction fails with the
\* invalid-argument error; no _apply is invoked, no snapshot is taken over,
\* and the registries and backends are what they were.
C10_InvalidArgument ==
    [][\A b \in Backends :
          applyTx(b, NotATx) =>
              /\ ret'.op = "applyTx" /\ ret'.val = "InvalidArgument"
              /\ UNCHANGED <<snapshots, backend, diff, applications, nApply, txState>>]_vars

\* The invalid call was made on a registry with members, while a transaction
\* with a snapshot of its own was open.
C10_Witness ==
    /\ ret.op = "applyTx" /\ ret.val = "InvalidArgument"
    /\ snapshots[Store] # {}
    /\ \E t \in Txs : txState[t] = "open" /\ snapshots[t] # {}

\* C11: createSnapshot returns a snapshot that did not exist before, with an
\* empty diff and the given backend; the registry becomes its previous
\* members plus that snapshot, no other registry changes, and the diff and
\* backend of every other snapshot stay what they were.
C11_CreateSnapshot ==
    [][\A b \in Backends :
          createSnapshot(b) =>
              /\ ret'.op = "createSnapshot"
              /\ ret'.snap \in Snaps
              /\ ~created[ret'.snap] /\ created'[ret'.snap]
              /\ \A c \in Backends : ret'.snap \notin snapshots[c]
              /\ diff'[ret'.snap] = [k \in Keys |-> NoEntry]
              /\ backend'[ret'.snap] = BackendRef(b)
              /\ snapshots' = [snapshots EXCEPT ![b] = @ \cup {ret'.snap}]
              /\ \A r \in Snaps \ {ret'.snap} :
                     diff'[r] = diff[r] /\ backend'[r] = backend[r]]_vars

\* The second snapshot has just been created on the store, whose registry
\* already held the first, which has a captured pre-image.
C11_Witness ==
    /\ ret.op = "createSnapshot" /\ ret.snap = 2
    /\ snapshots[Store] = {1, 2}
    /\ diff[1]["A"] # NoEntry
    /\ diff[2] = [k \in Keys |-> NoEntry]

\* C12: a member of a registry stays a member of it across createSnapshot and
\* applyTx (and every other step); the only step that removes a snapshot from
\* a registry is abortSnapshot of that snapshot on that registry.
C12_OnlyAbortRemoves ==
    [][\A b \in Backends : \A s \in Snaps :
          (s \in snapshots[b] /\ s \notin snapshots'[b]) => abortSnapshot(b, s)]_vars

\* The first snapshot is still registered on the store after a second one was
\* created and a transaction it was applied for has committed.
C12_Witness ==
    /\ origin[1] = Store /\ 1 \in snapshots[Store]
    /\ created[2]
    /\ \E t \in Txs : txState[t] = "committed" /\ txParent[t] = Store /\ 1 \in atCall[t]

\* C13 (as claimed): the backend of a snapshot is reassigned at most once and
\* only when the transaction it was created against commits, i.e. every
\* reassignment starts from the backend given at creation and is made by the
\* applyTx of that transaction on its parent's registry.
C13_ReassignedAtMostOnce ==
    [][\A s \in Snaps :
          (created[s] /\ backend'[s] # backend[s]) =>
              /\ backend[s] = BackendRef(origin[s])
              /\ origin[s] \in Txs
              /\ IF origin[s] \in Txs
                 THEN applyTx(txParent[origin[s]], origin[s])
                 ELSE FALSE]_vars

\* C13 (amended): the backend of a snapshot is reassigned only by adoption,
\* that is by an applyTx(tx) on the registry tx commits into while the snapshot
\* is in tx's registry and delegates to tx; it then refers to that registry's
\* side.  Each commit level reassigns it once.
C13_ReassignedOnlyByAdoption ==
    [][\A s \in Snaps :
          (created[s] /\ backend'[s] # backend[s]) =>
              \E b \in Backends : \E t \in Txs :
                  /\ applyTx(b, t)
                  /\ s \in snapshots[t]
                  /\ backend[s].of = t
                  /\ backend'[s] = TakeOverBackend(b)]_vars

\* A snapshot created against a nested transaction has been adopted twice:
\* first by the parent transaction, then by the store.
C13_Witness ==
    \E s \in Snaps : \E t \in Txs :
        /\ created[s] /\ origin[s] = t
        /\ txParent[t] \in Txs
        /\ txState[t] = "committed"
        /\ backend[s] = TakeOverBackend(Store)

\* C14: when applyTx(t) has failed because a capture failed, no snapshot of
\* t's registry has been adopted: those snapshots still delegate to t and
\* none of them has become a member of the registry t was applied on.
C14_FailedApplyTxAdoptsNothing ==
    \A t \in Txs :
        txState[t] = "rejected" =>
            /\ \A s \in txSnapsAtCall[t] : backend[s].of = t
            /\ \A s \in txSnapsAtCall[t] \ atCall[t] : s \notin snapshots[txParent[t]]

\* C15: when _apply(t) has failed for one snapshot, _apply(t) has nevertheless
\* been invoked (once) for every snapshot registered at the call, and a
\* running application is ended by nothing but its own completion or its own
\* failure: neither another application's failure nor the rejection of the
\* call skips or cancels it.
C15_FailureSparesOthers ==
    /\ [](\A t \in Txs :
             (\E s \in Snaps : applications[t][s] = "failed") =>
                 \A r \in atCall[t] :
                     nApply[t][r] = 1 /\ applications[t][r] \in {"pending", "done", "failed"})
    /\ [][\A t \in Txs : \A r \in Snaps :
             (applications[t][r] = "pending" /\ applications'[t][r] # "pending") =>
                 (ApplyDone(t, r) \/ ApplyFail(t, r))]_vars

\* An applyTx with two registered snapshots was rejected: the application of
\* one failed, the other's ran to completion and captured the pre-image.
C15_Witness ==
    \E t \in Txs : \E s \in Snaps : \E r \in Snaps :
        /\ atCall[t] = {s, r} /\ s # r
        /\ txState[t] = "rejected"
        /\ applications[t][s] = "failed" /\ diff[s]["A"] = NoEntry
        /\ applications[t][r] = "done" /\ diff[r]["A"] # NoEntry

\* C16: a snapshot created on a registry while an applyTx(t) on that registry
\* is in flight never receives _apply(t); and every applyTx(t) on a registry
\* invokes _apply(t), once, on each snapshot that is registered there when it
\* begins, so on every snapshot created there before and not aborted.
C16_CreatedMidApplyTxNotApplied ==
    /\ [](\A s \in Snaps : \A t \in inflightAtCreate[s] :
             nApply[t][s] = 0 /\ applications[t][s] = "none")
    /\ [][\A b \in Backends : \A t \in Txs :
             applyTx(b, t) =>
                 \A s \in snapshots[b] :
                     /\ nApply[t][s] = 0 /\ nApply'[t][s] = 1
                     /\ applications'[t][s] = "pending"]_vars

\* A snapshot was created while one applyTx was in flight, which has since
\* committed without applying it; a later applyTx on the registry applied it.
C16_Witness ==
    \E s \in Snaps : \E t \in Txs : \E u \in Txs :
        /\ t \in inflightAtCreate[s] /\ txState[t] = "committed"
        /\ nApply[t][s] = 0 /\ diff[s]["A"] # NoEntry
        /\ u # t /\ txParent[u] = origin[s]
        /\ s \in atCall[u] /\ nApply[u][s] = 1 /\ applications[u][s] = "done"

\* C17: applyTx(t) on a registry makes every snapshot of t's registry a member
\* of that registry; an adopted snapshot leaves it only by abortSnapshot; and
\* every applyTx(u) that begins on the registry while the adopted snapshot is
\* a member invokes _apply(u) on it.
C17_AdoptedSnapshotsAreApplied ==
    [][\A b \in Backends :
          /\ \A t \in Txs :
                 applyTx(b, t) =>
                     /\ \A s \in snapshots[t] : s \in snapshots'[b]
                     /\ \A s \in snapshots[b] :
                            origin[s] # b =>
                                nApply'[t][s] = 1 /\ applications'[t][s] = "pending"
          /\ \A s \in Snaps :
                 (origin[s] # b /\ s \in snapshots[b] /\ s \notin snapshots'[b]) =>
                     abortSnapshot(b, s)]_vars

\* A snapshot created against a transaction was adopted by the store when
\* that transaction committed, and a later transaction on the store has been
\* applied to it.
C17_Witness ==
    \E s \in Snaps : \E t \in Txs : \E u \in Txs :
        /\ origin[s] = t /\ txParent[t] = Store /\ s \in txSnapsAtCall[t]
        /\ txState[t] = "committed"
        /\ u # t /\ txParent[u] = Store
        /\ s \in atCall[u] /\ nApply[u][s] = 1 /\ applications[u][s] = "done"
        /\ s \in snapshots[Store]

\* The members of the registry the iterator was obtained from.
Iterated == IF itState = "none" THEN {} ELSE snapshots[itOf]

\* C18 (as claimed): an iteration yields only snapshots that were registered
\* when the iterator was obtained; one added afterwards is not yielded.
C18_IterationOfMembersAtStart ==
    itState # "none" => itYielded \subseteq itStart

\* C18 (amended): the iteration is live.  It yields only snapshots that are
\* registered when they are yielded; the entries still to visit are the
\* members not visited since they were last added, so a snapshot added by
\* createSnapshot or by adoption before the iteration has finished is yielded
\* too; and when the iterator reports done, every registered snapshot has
\* been yielded.
C18_IterationIsLive ==
    /\ [](itState = "open" =>
             /\ itPending \subseteq Iterated
             /\ Iterated \ itPending \subseteq itYielded)
    /\ [][/\ (itYielded' \ itYielded) \subseteq Iterated
          /\ (itState = "open" /\ itState' = "done") => Iterated \subseteq itYielded
          /\ \A s \in Snaps :
                 (itState = "open" /\ s \notin Iterated /\ s \in Iterated') =>
                     s \in itPending']_vars

\* An iteration of a registry that had a member when it began has finished
\* and has yielded a snapshot that was added after it began.
C18_Witness ==
    /\ itState = "done"
    /\ itStart # {}
    /\ itYielded \ itStart # {}

\* abortSnapshot(s) has returned true on b's registry: s was a member of it
\* (created there, or taken over by an applyTx on it) and is no longer.
AbortedOn(b, s) ==
    /\ created[s]
    /\ s \notin snapshots[b]
    /\ \/ origin[s] = b
       \/ \E t \in Txs : txParent[t] = b /\ Called(t) /\ s \in txSnapsAtCall[t]

C20_AbortedBeforeCommitNotAdopted ==
    \A s \in Snaps : \A t \in Txs :
        (created[s] /\ origin[s] = t /\ Called(t) /\ s \notin txSnapsAtCall[t]) =>
            /\ s \notin snapshots[txParent[t]]
            /\ backend[s] = BackendRef(t)

\* Of two snapshots created against a transaction, one was aborted before the
\* commit and stayed behind, the other was adopted by the store.
C20_Witness ==
    \E s \in Snaps : \E r \in Snaps : \E t \in Txs :
        /\ origin[s] = t /\ origin[r] = t /\ s # r
        /\ txParent[t] = Store /\ txState[t] = "committed"
        /\ s \notin txSnapsAtCall[t] /\ backend[s] = BackendRef(t)
        /\ r \in txSnapsAtCall[t] /\ r \in snapshots[Store]
=============================================================================
